---- MODULE Spec2Model ----
(***************************************************************************)
(* Model of the boundary-layer orchestrator of the GeoBoundaries map       *)
(* viewer (src/unnamed/part_000, the page script).  JavaScript runs the    *)
(* handlers on one thread: a handler runs without interruption up to its   *)
(* first `await fetch(...)`, so every action below is one event handler    *)
(* run up to that suspension point, or the continuation of one suspended   *)
(* loadAndRenderLayer call after its fetch settled.                        *)
(***************************************************************************)
EXTENDS Integers, Sequences, FiniteSets, Bags, TLC

----------------------------------------------------------------------------
(* Bounds of the model *)

\* user events (dropdown changes, button clicks, search result clicks) per run
MaxEvents == 3
\* features a hit-test returns for one point (resolver specification)
MaxHits == 3
\* user events of one run of the page under fair fetch completion
MaxFairEvents == 2
\* characters of a search query (search specification)
MaxQueryLen == 3
\* results the matching engine returns for a query (search specification)
MaxResults == 12

----------------------------------------------------------------------------
(* Static data loaded by init(): terminology.json, countries.json,         *)
(* search-index.json                                                       *)

NULL == "null"

\* state.countries: the isos offered by the country dropdown
ISO == {"FRA", "XKX", "ATA"}

LevelCodes == {"ADM0", "ADM1", "ADM2"}

\* state.terminology: iso -> { defaultView, levels }.  `levels` is the list
\* Object.keys(countryData.levels) yields: the keys in the order in which
\* the JSON file lists them.  FRA lists its levels in rank order; XKX does
\* not start at ADM0 and is not listed in rank order; ATA has no entry.
terminology ==
    [ FRA |-> [ defaultView |-> "view-FRA", levels |-> <<"ADM0", "ADM1">> ],
      XKX |-> [ defaultView |-> "view-XKX", levels |-> <<"ADM2", "ADM1">> ] ]

HasTerminology(iso) == iso \in DOMAIN terminology

Range(seq) == { seq[i] : i \in DOMAIN seq }

\* countryData.levels[levelCode] is defined
HasLevel(iso, levelCode) ==
    HasTerminology(iso) /\ levelCode \in Range(terminology[iso].levels)

\* countryData.levels[levelCode].term
LevelTerm(iso, levelCode) == <<"term", iso, levelCode>>

\* state.content: country -> level -> unit name -> { description?, images?,
\* videos? }.  XKX and ATA have no entry, FRA has none for ADM2, FRA's ADM0
\* has none for unit "b"; a record may leave fields out.
content ==
    [ FRA |->
        [ ADM0 |-> [ a |-> [ description |-> "text",
                             images |-> <<"image1", "image2">>,
                             videos |-> <<"video1", "video2">> ] ],
          ADM1 |-> [ a |-> [ description |-> "text" ],
                     b |-> [ description |-> "", images |-> << >>,
                             videos |-> << >> ] ] ] ]

\* state.searchIndex: the records a search result click can carry
SearchIndex ==
    { [ iso |-> "FRA", level |-> "ADM1" ],
      [ iso |-> "XKX", level |-> "ADM2" ],
      [ iso |-> "ATA", level |-> "ADM0" ] }

\* parseInt(code.replace('ADM', ''))
Rank(levelCode) ==
    CASE levelCode = "ADM0" -> 0
      [] levelCode = "ADM1" -> 1
      [] levelCode = "ADM2" -> 2

----------------------------------------------------------------------------
(* Identifiers built by loadAndRenderLayer / removeLayer *)

\* cacheKey = `${iso}_${levelCode}`
CacheKey(iso, levelCode) == <<iso, levelCode>>
Keys == ISO \X LevelCodes

\* layerIdFill = `layer-fill-${cacheKey}`, layerIdLine = `layer-line-${cacheKey}`
LayerIdFill(iso, levelCode) == <<"fill", iso, levelCode>>
LayerIdLine(iso, levelCode) == <<"line", iso, levelCode>>

----------------------------------------------------------------------------
VARIABLES
    selectedCountryISO, \* state.selectedCountryISO
    activeLevels,       \* state.activeLevels
    geoJsonCache,       \* state.geoJsonCache: key -> 0 (absent) or the dataset
    mapSources,         \* the renderer's sources: key -> 0 (absent) or its data
    mapLayers,          \* the renderer's layers, bottom first (draw order)
    listeners,          \* key -> number of click (and hover) callbacks on its fill layer id
    pending,            \* loadAndRenderLayer calls suspended at `await fetch`
    fetchCount,         \* key -> number of fetches issued so far
    btnIso,             \* country the admin buttons were rendered for
    btnActive,          \* data-level of the buttons carrying class 'active'
    camera,             \* the last map.flyTo command
    popups,             \* bag of the popups that are open
    search,             \* the search result list, and history: the last query and the engine's answer
    hitTest,            \* a hit-test result handed to the resolver on its own (SpecResolver)
    cycle,              \* history: key -> progress through on / off / on
    events,             \* history: number of user events so far
    last                \* history: the handler that ran last

vars == << selectedCountryISO, activeLevels, geoJsonCache, mapSources,
           mapLayers, listeners, pending, fetchCount, btnIso, btnActive,
           camera, popups, search, hitTest, cycle, events, last >>

\* The program state as one value, so that a handler calling another
\* handler is the composition of their effects.
Cur ==
    [ sel |-> selectedCountryISO, act |-> activeLevels, cache |-> geoJsonCache,
      src |-> mapSources, lay |-> mapLayers, lis |-> listeners,
      pend |-> pending, fc |-> fetchCount, bIso |-> btnIso,
      bAct |-> btnActive, cam |-> camera, pop |-> popups, srch |-> search,
      cyc |-> cycle, threw |-> FALSE ]

----------------------------------------------------------------------------
(* The renderer (MapLibre) as the page script uses it *)

HasLayer(lay, id) == \E i \in DOMAIN lay : lay[i] = id

\* map.addLayer(layer) without beforeId: appended on top of the draw order;
\* an id that already exists is reported and not added again
addLayer(lay, id) == IF HasLayer(lay, id) THEN lay ELSE Append(lay, id)

\* history: a load of key k ended with the level's layers requested
CycleOn(c) == IF c = 0 THEN 1 ELSE IF c = 2 THEN 3 ELSE c
\* history: key k was toggled off
CycleOff(c) == IF c \in {1, 3} THEN 2 ELSE c

\* removeLayer as it would be without its map.removeSource line
removeLayerKeepingSource(s, iso, levelCode) ==
    LET gone == { LayerIdFill(iso, levelCode), LayerIdLine(iso, levelCode) }
    IN  [ s EXCEPT !.lay = SelectSeq(@, LAMBDA id : id \notin gone) ]

\* removeLayer(iso, levelCode)
removeLayer(s, iso, levelCode) ==
    LET k == CacheKey(iso, levelCode)
        gone == { LayerIdFill(iso, levelCode), LayerIdLine(iso, levelCode) }
    IN  [ s EXCEPT !.lay = SelectSeq(@, LAMBDA id : id \notin gone),
                   !.src[k] = 0 ]

\* renderLayer as it would be without the outline layer
renderLayerWithoutLine(s, iso, levelCode) ==
    LET k == CacheKey(iso, levelCode) IN
    IF s.src[k] # 0
    THEN [ s EXCEPT !.threw = TRUE, !.cyc[k] = CycleOn(@) ]
    ELSE [ s EXCEPT !.src[k] = s.cache[k],
                    !.lay = addLayer(@, LayerIdFill(iso, levelCode)),
                    !.lis[k] = @ + 1,
                    !.cyc[k] = CycleOn(@) ]

\* loadAndRenderLayer from `const geojson = ...` to its end: addSource, the
\* two addLayer calls and the click / hover registrations.  map.addSource
\* throws when the source id exists, which ends the async function with a
\* rejected promise before any layer or callback is added.
renderLayer(s, iso, levelCode) ==
    LET k == CacheKey(iso, levelCode) IN
    IF s.src[k] # 0
    THEN [ s EXCEPT !.threw = TRUE, !.cyc[k] = CycleOn(@) ]
    ELSE [ s EXCEPT !.src[k] = s.cache[k],
                    !.lay = addLayer(addLayer(@, LayerIdFill(iso, levelCode)),
                                     LayerIdLine(iso, levelCode)),
                    !.lis[k] = @ + 1,
                    !.cyc[k] = CycleOn(@) ]

\* loadAndRenderLayer as it would be without its geoJsonCache test
loadAndRenderLayerIgnoringCache(s, iso, levelCode) ==
    LET k == CacheKey(iso, levelCode) IN
    IF s.src[k] # 0
    THEN [ s EXCEPT !.cyc[k] = CycleOn(@) ]
    ELSE IF ~HasLevel(iso, levelCode)
         THEN [ s EXCEPT !.threw = TRUE ]
         ELSE [ s EXCEPT !.fc[k] = @ + 1,
                         !.pend = @ \cup { [ iso |-> iso, level |-> levelCode,
                                             id |-> s.fc[k] + 1 ] } ]

\* loadAndRenderLayer(iso, levelCode) up to `await fetch(path)`
loadAndRenderLayer(s, iso, levelCode) ==
    LET k == CacheKey(iso, levelCode) IN
    IF s.src[k] # 0
    THEN [ s EXCEPT !.cyc[k] = CycleOn(@) ]
    ELSE IF s.cache[k] = 0
         THEN IF ~HasLevel(iso, levelCode)
              THEN \* countryData.levels[levelCode].file: TypeError
                   [ s EXCEPT !.threw = TRUE ]
              ELSE [ s EXCEPT !.fc[k] = @ + 1,
                              !.pend = @ \cup { [ iso |-> iso, level |-> levelCode,
                                                  id |-> s.fc[k] + 1 ] } ]
         ELSE renderLayer(s, iso, levelCode)

\* the continuation as it would be if it stored the dataset and drew nothing
fetchResolvedCacheOnly(s, t) ==
    [ s EXCEPT !.pend = @ \ {t},
               !.cache[CacheKey(t.iso, t.level)] = t.id ]

\* the continuation of loadAndRenderLayer after fetch and res.json() succeeded
\* (nothing is read or written between the two awaits)
fetchResolved(s, t) ==
    renderLayer([ s EXCEPT !.pend = @ \ {t},
                           !.cache[CacheKey(t.iso, t.level)] = t.id ],
                t.iso, t.level)

\* the catch branch as it would be if it fetched again
fetchRejectedRetrying(s, t) ==
    LET k == CacheKey(t.iso, t.level) IN
    [ s EXCEPT !.fc[k] = @ + 1,
               !.pend = (@ \ {t}) \cup { [ iso |-> t.iso, level |-> t.level,
                                           id |-> s.fc[k] + 1 ] } ]

\* the catch branch: network error, non-OK status or parse error
fetchRejected(s, t) == [ s EXCEPT !.pend = @ \ {t} ]

\* querySelector(`[data-level="${levelCode}"]`) finds a button
HasButton(s, levelCode) == s.bIso # NULL /\ HasLevel(s.bIso, levelCode)

\* toggleAdminLevel as it would be if enabling a level replaced the set
toggleAdminLevelExclusive(s, iso, levelCode, shouldEnable) ==
    IF shouldEnable
    THEN loadAndRenderLayer(
             [ s EXCEPT !.act = {levelCode},
                        !.bAct = IF HasButton(s, levelCode)
                                 THEN @ \cup {levelCode} ELSE @ ],
             iso, levelCode)
    ELSE removeLayer(
             [ s EXCEPT !.act = @ \ {levelCode},
                        !.bAct = @ \ {levelCode},
                        !.cyc[CacheKey(iso, levelCode)] = CycleOff(@) ],
             iso, levelCode)

\* toggleAdminLevel(iso, levelCode, shouldEnable)
toggleAdminLevel(s, iso, levelCode, shouldEnable) ==
    IF shouldEnable
    THEN loadAndRenderLayer(
             [ s EXCEPT !.act = @ \cup {levelCode},
                        !.bAct = IF HasButton(s, levelCode)
                                 THEN @ \cup {levelCode} ELSE @ ],
             iso, levelCode)
    ELSE removeLayer(
             [ s EXCEPT !.act = @ \ {levelCode},
                        !.bAct = @ \ {levelCode},
                        !.cyc[CacheKey(iso, levelCode)] = CycleOff(@) ],
             iso, levelCode)

\* renderAdminButtons(iso): the container is emptied and refilled
renderAdminButtons(s, iso) == [ s EXCEPT !.bIso = iso, !.bAct = {} ]

\* selectCountry(iso)
selectCountry(s, iso) ==
    LET s1 == [ s EXCEPT !.sel = iso, !.act = {} ] IN
    IF ~HasTerminology(iso)
    THEN s1
    ELSE LET s2 == renderAdminButtons(
                       [ s1 EXCEPT !.cam = <<"country", iso>> ], iso)
             levels == terminology[iso].levels
         IN  IF Len(levels) > 0
             THEN toggleAdminLevel(s2, iso, levels[1], TRUE)
             ELSE s2

\* results shown per query: results.slice(0, 10)
TopK == 10
\* shortest query that is searched: query.length < 2 returns
MinQueryLen == 2

Min(a, b) == IF a < b THEN a ELSE b

\* the result list before the first query
NoSearch ==
    [ query |-> << >>, ranked |-> << >>, items |-> << >>, hidden |-> TRUE,
      calls |-> 0 ]

\* handleSearch as it would be without the slice
handleSearchShowingAll(s, query, results) ==
    IF Len(query) < MinQueryLen
    THEN [ s EXCEPT !.srch = [ @ EXCEPT !.query = query, !.ranked = << >>,
                                        !.items = << >>, !.hidden = TRUE ] ]
    ELSE [ s EXCEPT !.srch = [ @ EXCEPT !.query = query, !.ranked = results,
                                        !.calls = @ + 1,
                                        !.items = results,
                                        !.hidden = (Len(results) = 0) ] ]

\* handleSearch(query); `results` is what fuse.search(query) returns when
\* it is called, `calls` counts its calls
handleSearch(s, query, results) ==
    IF Len(query) < MinQueryLen
    THEN [ s EXCEPT !.srch = [ @ EXCEPT !.query = query, !.ranked = << >>,
                                        !.items = << >>, !.hidden = TRUE ] ]
    ELSE [ s EXCEPT !.srch = [ @ EXCEPT !.query = query, !.ranked = results,
                                        !.calls = @ + 1,
                                        !.items = SubSeq(results, 1,
                                                         Min(TopK, Len(results))),
                                        !.hidden = (Len(results) = 0) ] ]

\* the zoom of the camera move to a search result
SearchZoom == 7

\* selectSearchResult as it would be with the camera move issued first
selectSearchResultFlyFirst(s, item) ==
    LET s1 == [ s EXCEPT !.cam = <<"point", item.iso, item.level, SearchZoom>> ]
        s2 == IF s1.sel # item.iso THEN selectCountry(s1, item.iso) ELSE s1
    IN  toggleAdminLevel(s2, item.iso, item.level, TRUE)

\* selectSearchResult(item); the camera command names the record whose
\* center it targets
selectSearchResult(s, item) ==
    LET s1 == IF s.sel # item.iso THEN selectCountry(s, item.iso) ELSE s
        s2 == [ s1 EXCEPT !.cam = <<"point", item.iso, item.level, SearchZoom>> ]
    IN  toggleAdminLevel(s2, item.iso, item.level, TRUE)

----------------------------------------------------------------------------
(* Interaction: handleFeatureClick *)

\* the unit names two overlapping features of one level can carry
UnitNames == {"a", "b"}

\* the properties of a feature of a boundary dataset
Features ==
    [ shapeName : UnitNames, shapeType : LevelCodes, shapeGroup : ISO ]

\* the feature of dataset (iso, levelCode) that covers a point: the units of
\* one level do not overlap
FeatureAt(k) == [ shapeName |-> "a", shapeType |-> k[2], shapeGroup |-> k[1] ]

\* the comparator with the operands of the subtraction exchanged
compareFeaturesAscending(a, b) == Rank(a.shapeType) - Rank(b.shapeType)

\* the comparator of features.sort: levelB - levelA
compareFeatures(a, b) == Rank(b.shapeType) - Rank(a.shapeType)

\* the insertion of an unstable sort: x goes before the elements that
\* compare equal
InsertSortedBeforeEqual(sorted, x) ==
    LET after == { i \in DOMAIN sorted : compareFeatures(sorted[i], x) >= 0 }
        p == IF after = {} THEN Len(sorted) + 1
             ELSE CHOOSE i \in after : \A j \in after : i <= j
    IN  SubSeq(sorted, 1, p - 1) \o <<x>> \o SubSeq(sorted, p, Len(sorted))

\* Array.prototype.sort is stable: x goes before the first element that the
\* comparator orders after it, behind the elements that compare equal
InsertSorted(sorted, x) ==
    LET after == { i \in DOMAIN sorted : compareFeatures(sorted[i], x) > 0 }
        p == IF after = {} THEN Len(sorted) + 1
             ELSE CHOOSE i \in after : \A j \in after : i <= j
    IN  SubSeq(sorted, 1, p - 1) \o <<x>> \o SubSeq(sorted, p, Len(sorted))

RECURSIVE sortFeatures(_)
sortFeatures(features) ==
    IF features = << >> THEN << >>
    ELSE InsertSorted(sortFeatures(SubSeq(features, 1, Len(features) - 1)),
                      features[Len(features)])

\* the subtitle as it would be without the `|| shapeType` fallback
levelTermWithoutFallback(iso, shapeType) ==
    IF HasLevel(iso, shapeType) THEN LevelTerm(iso, shapeType) ELSE NULL

\* termData?.levels[shapeType]?.term || shapeType
levelTerm(iso, shapeType) ==
    IF HasLevel(iso, shapeType) THEN LevelTerm(iso, shapeType) ELSE shapeType

\* the content record showPopup works with: the catalog's record, or the
\* empty record when one of the three lookups finds nothing
contentOf(iso, shapeType, shapeName) ==
    IF /\ iso \in DOMAIN content
       /\ shapeType \in DOMAIN content[iso]
       /\ shapeName \in DOMAIN content[iso][shapeType]
    THEN content[iso][shapeType][shapeName]
    ELSE [ videos |-> << >>, images |-> << >>, description |-> "" ]

\* content.videos && content.videos.length > 0 ? content.videos[0] : nothing
FirstOf(c, field) ==
    IF field \in DOMAIN c /\ Len(c[field]) > 0 THEN c[field][1] ELSE NULL

\* showPopup(feature, lngLat): one more popup on the map, with the title,
\* the subtitle and the body its HTML is built from
showPopup(s, feature) ==
    LET c == contentOf(feature.shapeGroup, feature.shapeType, feature.shapeName)
        popup ==
          [ feature |-> feature,
            title |-> feature.shapeName,
            subtitle |-> levelTerm(feature.shapeGroup, feature.shapeType),
            video |-> FirstOf(c, "videos"),
            image |-> FirstOf(c, "images"),
            description |-> IF "description" \in DOMAIN c /\ c.description # ""
                            THEN c.description ELSE NULL ]
    IN  [ s EXCEPT !.pop = @ (+) SetToBag({popup}) ]

\* handleFeatureClick from `if (features.length === 0) return` to its end
resolveClick(s, features) ==
    IF Len(features) = 0 THEN s ELSE showPopup(s, sortFeatures(features)[1])

\* map.queryRenderedFeatures(point, { layers }): the features under the
\* point that belong to the listed layers.  A listed layer that is not in
\* the style makes the renderer report an error and return nothing
\* (strict) or is passed over, depending on the renderer's version.
queryRenderedFeatures(lay, rendered, layers, strict) ==
    IF strict /\ \E id \in layers : ~HasLayer(lay, id)
    THEN << >>
    ELSE SelectSeq(rendered,
             LAMBDA f : /\ LayerIdFill(f.shapeGroup, f.shapeType) \in layers
                        /\ HasLayer(lay, LayerIdFill(f.shapeGroup, f.shapeType)))

\* handleFeatureClick as it would be if it queried every fill layer
handleFeatureClickAllLayers(s, rendered, strict, iso, levelCode) ==
    LET activeLayers == { LayerIdFill(k[1], k[2]) : k \in Keys }
    IN  resolveClick(s, queryRenderedFeatures(s.lay, rendered, activeLayers, FALSE))

\* handleFeatureClick(e, iso, levelCode)
handleFeatureClick(s, rendered, strict, iso, levelCode) ==
    LET activeLayers == { LayerIdFill(iso, lvl) : lvl \in s.act }
    IN  resolveClick(s, queryRenderedFeatures(s.lay, rendered, activeLayers, strict))

\* the features of the fill layers K under a point, topmost layer first
TopFirst(lay, K) ==
    LET n == Len(lay)
        rev == [ i \in 1..n |-> lay[n + 1 - i] ]
        sel == SelectSeq(rev, LAMBDA id : id[1] = "fill" /\ <<id[2], id[3]>> \in K)
    IN  [ i \in DOMAIN sel |-> FeatureAt(<<sel[i][2], sel[i][3]>>) ]

\* one click callback of key k is called n times (it was registered n times)
RECURSIVE callListener(_, _, _, _, _)
callListener(s, rendered, strict, k, n) ==
    IF n = 0 THEN s
    ELSE callListener(handleFeatureClick(s, rendered, strict, k[1], k[2]),
                      rendered, strict, k, n - 1)

\* the renderer calls every click callback registered for a fill layer
\* that has a feature under the point
RECURSIVE fireListeners(_, _, _, _)
fireListeners(s, rendered, strict, K) ==
    IF K = {} THEN s
    ELSE LET k == CHOOSE x \in K : TRUE
         IN  fireListeners(callListener(s, rendered, strict, k, s.lis[k]),
                           rendered, strict, K \ {k})

\* the fill layers in the renderer
DrawnKeys(lay) == { k \in Keys : HasLayer(lay, LayerIdFill(k[1], k[2])) }

----------------------------------------------------------------------------
(* Actions: one per event the page reacts to *)

Commit(s, op, iso, levelCode) ==
    /\ selectedCountryISO' = s.sel
    /\ activeLevels' = s.act
    /\ geoJsonCache' = s.cache
    /\ mapSources' = s.src
    /\ mapLayers' = s.lay
    /\ listeners' = s.lis
    /\ pending' = s.pend
    /\ fetchCount' = s.fc
    /\ btnIso' = s.bIso
    /\ btnActive' = s.bAct
    /\ camera' = s.cam
    /\ popups' = s.pop
    /\ search' = s.srch
    /\ cycle' = s.cyc
    /\ last' = [ op |-> op, iso |-> iso, level |-> levelCode, threw |-> s.threw ]

Init ==
    /\ selectedCountryISO = NULL
    /\ activeLevels = {}
    /\ geoJsonCache = [ k \in Keys |-> 0 ]
    /\ mapSources = [ k \in Keys |-> 0 ]
    /\ mapLayers = << >>
    /\ listeners = [ k \in Keys |-> 0 ]
    /\ pending = {}
    /\ fetchCount = [ k \in Keys |-> 0 ]
    /\ btnIso = NULL
    /\ btnActive = {}
    /\ camera = <<"initial">>
    /\ popups = EmptyBag
    /\ search = NoSearch
    /\ hitTest = << >>
    /\ cycle = [ k \in Keys |-> 0 ]
    /\ events = 0
    /\ last = [ op |-> "init", iso |-> NULL, level |-> NULL, threw |-> FALSE ]

\* a user event is taken while the run's budget lasts
UserEvent == events < MaxEvents /\ events' = events + 1

\* the dropdown's change listener
CountryDropdownChange(iso) ==
    /\ UserEvent
    /\ UNCHANGED hitTest
    /\ Commit(selectCountry(Cur, iso), "selectCountry", iso, NULL)

\* the click listener of an admin button, rendered for btnIso
AdminButtonClick(levelCode) ==
    /\ UserEvent
    /\ UNCHANGED hitTest
    /\ btnIso # NULL
    /\ HasLevel(btnIso, levelCode)
    /\ LET isActive == levelCode \in activeLevels IN
       Commit(toggleAdminLevel(Cur, btnIso, levelCode, ~isActive),
              IF isActive THEN "toggleOff" ELSE "toggleOn", btnIso, levelCode)

\* the click listener of a search result
SearchResultClick(item) ==
    /\ UserEvent
    /\ UNCHANGED hitTest
    /\ Commit([ selectSearchResult(Cur, item) EXCEPT !.srch.hidden = TRUE ],
              "selectSearchResult", item.iso, item.level)

\* a pending fetch succeeds
FetchResolve(t) ==
    /\ t \in pending
    /\ UNCHANGED << events, hitTest >>
    /\ Commit(fetchResolved(Cur, t), "fetchOk", t.iso, t.level)

\* a pending fetch fails
FetchReject(t) ==
    /\ t \in pending
    /\ UNCHANGED << events, hitTest >>
    /\ Commit(fetchRejected(Cur, t), "fetchFail", t.iso, t.level)

\* a click on the map at a point covered by the fill layers K; the popups
\* open so far close on the click (closeOnClick)
MapClick(K, strict) ==
    /\ UserEvent
    /\ K \subseteq DrawnKeys(mapLayers)
    /\ hitTest' = TopFirst(mapLayers, K)
    /\ Commit(fireListeners([ Cur EXCEPT !.pop = EmptyBag ],
                            TopFirst(mapLayers, K), strict, K),
              "mapClick", NULL, NULL)

Next ==
    \/ \E iso \in ISO : CountryDropdownChange(iso)
    \/ \E levelCode \in LevelCodes : AdminButtonClick(levelCode)
    \/ \E item \in SearchIndex : SearchResultClick(item)
    \/ \E t \in pending : FetchResolve(t)
    \/ \E t \in pending : FetchReject(t)
    \/ \E K \in SUBSET DrawnKeys(mapLayers) : \E strict \in BOOLEAN :
          MapClick(K, strict)

Spec == Init /\ [][Next]_vars

\* Every fetch ends: the network answers or fails each request, so a step
\* that completes a pending fetch cannot stay possible forever.
FetchCompletes == \E t \in pending : FetchResolve(t) \/ FetchReject(t)

\* the page's events, with the fair runs' budget of user events
NextFair ==
    \/ events < MaxFairEvents /\ \E iso \in ISO : CountryDropdownChange(iso)
    \/ events < MaxFairEvents /\ \E levelCode \in LevelCodes : AdminButtonClick(levelCode)
    \/ events < MaxFairEvents /\ \E item \in SearchIndex : SearchResultClick(item)
    \/ \E t \in pending : FetchResolve(t)
    \/ \E t \in pending : FetchReject(t)
    \/ events < MaxFairEvents /\ \E K \in SUBSET DrawnKeys(mapLayers) :
          \E strict \in BOOLEAN : MapClick(K, strict)

SpecFair == Init /\ [][NextFair]_vars /\ WF_vars(FetchCompletes)

\* The resolver on its own: the renderer returns any list of distinct
\* features, in any order, and handleFeatureClick resolves it.
HitLists ==
    { h \in UNION { [ 1..n -> Features ] : n \in 0..MaxHits } :
        \A i, j \in DOMAIN h : i # j => h[i] # h[j] }

InitResolver ==
    /\ selectedCountryISO = NULL
    /\ activeLevels = {}
    /\ geoJsonCache = [ k \in Keys |-> 0 ]
    /\ mapSources = [ k \in Keys |-> 0 ]
    /\ mapLayers = << >>
    /\ listeners = [ k \in Keys |-> 0 ]
    /\ pending = {}
    /\ fetchCount = [ k \in Keys |-> 0 ]
    /\ btnIso = NULL
    /\ btnActive = {}
    /\ camera = <<"initial">>
    /\ popups = EmptyBag
    /\ search = NoSearch
    /\ hitTest \in HitLists
    /\ cycle = [ k \in Keys |-> 0 ]
    /\ events = 0
    /\ last = [ op |-> "init", iso |-> NULL, level |-> NULL, threw |-> FALSE ]

ResolveHits ==
    /\ last.op = "init"
    /\ UNCHANGED << hitTest, events >>
    /\ Commit(resolveClick(Cur, hitTest), "resolve", NULL, NULL)

NextResolver == ResolveHits

SpecResolver == InitResolver /\ [][NextResolver]_vars

\* The search box on its own: any query, any ranked answer of the engine.
Queries == { [ i \in 1..n |-> "q" ] : n \in 0..MaxQueryLen }
RankedLists == { [ i \in 1..n |-> i ] : n \in 0..MaxResults }

\* the input listener of the search box
SearchInput(query, results) ==
    /\ UserEvent
    /\ UNCHANGED hitTest
    /\ Commit(handleSearch(Cur, query, results), "handleSearch", NULL, NULL)

NextSearch ==
    \E query \in Queries : \E results \in RankedLists : SearchInput(query, results)

SpecSearch == Init /\ [][NextSearch]_vars

TypeOK ==
    /\ selectedCountryISO \in ISO \cup {NULL}
    /\ activeLevels \subseteq LevelCodes
    /\ \A k \in Keys : geoJsonCache[k] \in 0..fetchCount[k]
    /\ \A k \in Keys : mapSources[k] \in 0..fetchCount[k]
    /\ events \in 0..MaxEvents
    /\ IsABag(popups)
    /\ btnIso \in DOMAIN terminology \cup {NULL}
    /\ btnActive \subseteq LevelCodes

----------------------------------------------------------------------------
(* Vocabulary of the properties *)

KeyOf(t) == CacheKey(t.iso, t.level)

\* the rank-lowest (least detailed) level of a country's level list
LowestLevel(iso) ==
    CHOOSE l \in Range(terminology[iso].levels) :
        \A m \in Range(terminology[iso].levels) : Rank(l) <= Rank(m)

\* number of layers with this id in the draw order
CountLayer(lay, id) == Cardinality({ i \in DOMAIN lay : lay[i] = id })

\* position of a layer in the draw order (1 = bottom)
Pos(lay, id) == CHOOSE i \in DOMAIN lay : lay[i] = id

\* nothing of (iso, levelCode) is in the renderer
NothingDrawn(src, lay, iso, levelCode) ==
    /\ src[CacheKey(iso, levelCode)] = 0
    /\ ~HasLayer(lay, LayerIdFill(iso, levelCode))
    /\ ~HasLayer(lay, LayerIdLine(iso, levelCode))

\* fill and outline layer of (iso, levelCode) are both in the renderer
BothDrawn(lay, iso, levelCode) ==
    /\ HasLayer(lay, LayerIdFill(iso, levelCode))
    /\ HasLayer(lay, LayerIdLine(iso, levelCode))

\* the step is the user event handler `op`
UserStep(op) == events' = events + 1 /\ last'.op = op

\* the step is the continuation of a suspended fetch, ended as `op`
FetchStep(op) == pending' # pending /\ events' = events /\ last'.op = op

----------------------------------------------------------------------------
(* C1 *)

\* C1: between event handlers a level is in the active set of the selected
\* country if and only if the fill and the outline layer of (selected
\* country, level) exist in the renderer, and no draw layer exists for a
\* (country, level) pair that is not active.
C1_ActiveIffDrawn ==
    /\ \A l \in LevelCodes :
          l \in activeLevels <=>
             (selectedCountryISO # NULL /\ BothDrawn(mapLayers, selectedCountryISO, l))
    /\ \A k \in Keys :
          (HasLayer(mapLayers, LayerIdFill(k[1], k[2]))
             \/ HasLayer(mapLayers, LayerIdLine(k[1], k[2])))
          => (k[1] = selectedCountryISO /\ k[2] \in activeLevels)

(* C2 *)

\* C2: when the fetch started by toggleAdminLevel(iso, level, true) fails,
\* then once the operation has finished the level is not in the active set,
\* its button is not shown as active, and no source, fill layer or outline
\* layer exists for (iso, level).
C2_FailedFetchLeavesInactive ==
    last.op = "fetchFail" =>
        /\ ~(selectedCountryISO = last.iso /\ last.level \in activeLevels)
        /\ ~(btnIso = last.iso /\ last.level \in btnActive)
        /\ NothingDrawn(mapSources, mapLayers, last.iso, last.level)

(* C3 *)

\* C3: selectCountry(B), called while country A is selected, clears A's
\* active levels and removes their draw layers: after the call no source,
\* fill layer or outline layer of any (A, level) remains in the renderer
\* (when A is selected again, only its default level may remain drawn).
C3_SelectCountryRemovesPrevious ==
    [][ (UserStep("selectCountry") /\ selectedCountryISO # NULL) =>
          LET A == selectedCountryISO
              B == last'.iso
          IN  /\ activeLevels' \subseteq
                    (IF HasTerminology(B) THEN {terminology[B].levels[1]} ELSE {})
              /\ \A l \in LevelCodes :
                    (A = B /\ l \in activeLevels')
                    \/ NothingDrawn(mapSources', mapLayers', A, l) ]_vars

(* C4 *)

\* C4: for a country with a terminology entry and at least one level,
\* selectCountry(country) results in an active set of exactly one level, the
\* country's lowest-rank level, also when its level list does not start at
\* ADM0 or is not listed in rank order; the camera is commanded to the
\* country's default view.
C4_SelectCountryActivatesLowestRank ==
    (last.op = "selectCountry" /\ HasTerminology(last.iso)
        /\ Len(terminology[last.iso].levels) > 0) =>
        /\ activeLevels = {LowestLevel(last.iso)}
        /\ camera = <<"country", last.iso>>

(* C5 *)

\* C5: selectCountry(iso) for an iso with no terminology entry leaves the
\* session state unchanged: selected country, active levels, cache and the
\* renderer's layers are the same after the call, and no camera move is
\* issued.
C5_MissingTerminologyLeavesState ==
    [][ (UserStep("selectCountry") /\ ~HasTerminology(last'.iso)) =>
          /\ selectedCountryISO' = selectedCountryISO
          /\ activeLevels' = activeLevels
          /\ geoJsonCache' = geoJsonCache
          /\ mapSources' = mapSources
          /\ mapLayers' = mapLayers
          /\ camera' = camera ]_vars

(* C6 *)

\* C6: for every pair of simultaneously drawn levels of the same country,
\* the fill and outline layers of the lower-rank level are strictly below
\* those of the higher-rank level in the draw order.
C6_DrawOrderByRank ==
    \A iso \in ISO : \A lo, hi \in LevelCodes :
        (Rank(lo) < Rank(hi) /\ BothDrawn(mapLayers, iso, lo)
            /\ BothDrawn(mapLayers, iso, hi)) =>
        \A a \in { LayerIdFill(iso, lo), LayerIdLine(iso, lo) } :
        \A b \in { LayerIdFill(iso, hi), LayerIdLine(iso, hi) } :
            Pos(mapLayers, a) < Pos(mapLayers, b)

(* C7 *)

\* C7: when two enable requests for the same (country, level) key are
\* outstanding before the first fetch completes, at most one network fetch
\* is issued for that key: no key ever has two fetches in flight, every
\* fetch completion for a key finds the dataset of the key's first fetch in
\* the cache, and one source, one fill and one outline layer result.
C7_OneFetchPerKeyInFlight ==
    /\ \A k \in Keys : Cardinality({ t \in pending : KeyOf(t) = k }) <= 1
    /\ \A k \in Keys : geoJsonCache[k] \in {0, 1}
    /\ \A k \in Keys : (geoJsonCache[k] # 0 /\ mapSources[k] # 0) =>
            /\ CountLayer(mapLayers, LayerIdFill(k[1], k[2])) = 1
            /\ CountLayer(mapLayers, LayerIdLine(k[1], k[2])) = 1

(* C8 *)

\* C8: the completion of a fetch started for (A, level), arriving while a
\* country other than A is selected, is discarded: it adds no source, no
\* fill layer, no outline layer and no click/hover registration.
C8_StaleCountryFetchDiscarded ==
    [][ (FetchStep("fetchOk") /\ last'.iso # selectedCountryISO) =>
          /\ mapSources' = mapSources
          /\ mapLayers' = mapLayers
          /\ listeners' = listeners ]_vars

(* C9 *)

\* C9: when a level is toggled on and then off for the same country before
\* its fetch completes, the completion does not create layers: after it the
\* level is inactive and no source, fill layer or outline layer exists for
\* (country, level).
C9_ToggledOffFetchDiscarded ==
    [][ (FetchStep("fetchOk") /\ last'.iso = selectedCountryISO
            /\ last'.level \notin activeLevels) =>
          /\ last'.level \notin activeLevels'
          /\ NothingDrawn(mapSources', mapLayers', last'.iso, last'.level) ]_vars

(* C10 *)

\* C10: toggling a level on, then off, then on again, each with a
\* successful load, leaves exactly one source, exactly one fill layer and
\* exactly one outline layer for the key in the renderer.
C10_OnOffOnLeavesOneOfEach ==
    \A k \in Keys :
        cycle[k] = 3 =>
            /\ mapSources[k] # 0
            /\ CountLayer(mapLayers, LayerIdFill(k[1], k[2])) = 1
            /\ CountLayer(mapLayers, LayerIdLine(k[1], k[2])) = 1

\* a key was drawn, toggled off and drawn again from its cached dataset
C10_Witness ==
    \E k \in Keys :
        /\ cycle[k] = 3
        /\ geoJsonCache[k] # 0
        /\ listeners[k] = 2
        /\ last.op = "toggleOn" /\ CacheKey(last.iso, last.level) = k

(* C11 *)

\* C11: the click and hover callbacks registered for a level's fill layer
\* on activation are torn down on deactivation: while the level's layers
\* are not in the renderer no callback is registered for its fill layer id,
\* and after on/off toggles ending in 'on' exactly one is registered.
C11_CallbacksTornDown ==
    \A k \in Keys :
        /\ mapSources[k] = 0 => listeners[k] = 0
        /\ mapSources[k] # 0 => listeners[k] = 1

(* C12 *)

\* C12: handleFeatureClick selects, among the features the hit-test returns
\* for the clicked point, a feature whose level rank is the maximum of the
\* hits, for every order in which the renderer returns the hits.
C12_MostDetailedWins ==
    (last.op = "resolve" /\ Len(hitTest) > 0) =>
        /\ BagCardinality(popups) = 1
        /\ \A p \in BagToSet(popups) :
              /\ p.feature \in Range(hitTest)
              /\ \A h \in Range(hitTest) :
                    Rank(p.feature.shapeType) >= Rank(h.shapeType)

\* hits of ranks 0, 1 and 2, the rank-2 feature not listed first, resolved
\* to the rank-2 feature
C12_Witness ==
    /\ last.op = "resolve"
    /\ { Rank(h.shapeType) : h \in Range(hitTest) } = {0, 1, 2}
    /\ Rank(hitTest[1].shapeType) = 0
    /\ \E p \in BagToSet(popups) : Rank(p.feature.shapeType) = 2

(* C13 *)

\* C13: selectSearchResult for a record of country B and level L, executed
\* while a different country A is selected, ends with the active set equal
\* to exactly {B's least-detailed level, L}.
C13_SearchEndsWithLowestAndLevel ==
    [][ (UserStep("selectSearchResult")
            /\ selectedCountryISO \notin {NULL, last'.iso}
            /\ HasTerminology(last'.iso)) =>
          activeLevels' = { LowestLevel(last'.iso), last'.level } ]_vars

(* C14 *)

\* C14: enabling a level that is already active is a no-op in every state
\* in which it is active: it issues no fetch, adds no source, layer or
\* callback, and leaves the active set, the cache and the draw order
\* unchanged.
C14_EnableActiveIsNoOp ==
    [][ (UserStep("selectSearchResult")
            /\ selectedCountryISO = last'.iso
            /\ last'.level \in activeLevels) =>
          /\ fetchCount' = fetchCount
          /\ pending' = pending
          /\ mapSources' = mapSources
          /\ mapLayers' = mapLayers
          /\ listeners' = listeners
          /\ activeLevels' = activeLevels
          /\ geoJsonCache' = geoJsonCache ]_vars

(* C15 *)

\* C15: disabling an active level removes its fill layer, its outline layer
\* and its data source from the renderer and leaves the cache unchanged.
C15_DisableRemovesLayersKeepsCache ==
    [][ UserStep("toggleOff") =>
          /\ NothingDrawn(mapSources', mapLayers', last'.iso, last'.level)
          /\ geoJsonCache' = geoJsonCache ]_vars

\* a drawn level was toggled off: its layers are gone, its dataset is cached
C15_Witness ==
    /\ last.op = "toggleOff"
    /\ listeners[CacheKey(last.iso, last.level)] >= 1
    /\ geoJsonCache[CacheKey(last.iso, last.level)] # 0
    /\ NothingDrawn(mapSources, mapLayers, last.iso, last.level)

(* C16 *)

\* C16: once a dataset is cached for a (country, level) key, no later
\* operation issues another fetch for that key.
C16_NoFetchOnceCached ==
    [][ \A k \in Keys :
          geoJsonCache[k] # 0 => fetchCount'[k] = fetchCount[k] ]_vars

\* a key was drawn a second time, from the cache, after a single fetch
C16_Witness ==
    \E k \in Keys :
        /\ geoJsonCache[k] # 0
        /\ fetchCount[k] = 1
        /\ listeners[k] = 2
        /\ mapSources[k] # 0

(* C17 *)

\* C17: a cache entry, once inserted for a key, is never removed and never
\* replaced by a different value, under any interleaving of activations and
\* fetch completions.
C17_CacheEntryNeverReplaced ==
    [][ \A k \in Keys :
          geoJsonCache[k] # 0 => geoJsonCache'[k] = geoJsonCache[k] ]_vars

(* C18 *)

C19_ActiveWithinCatalog ==
    activeLevels \subseteq
        (IF HasTerminology(selectedCountryISO)
         THEN Range(terminology[selectedCountryISO].levels) ELSE {})

(* C20 *)

\* C20: no operation ends in an uncaught error in any reachable state.
C20_NoUncaughtError == ~last.threw

(* C21 *)

\* the content catalog has a record under (country, level, unit name)
HasContentRecord(f) ==
    /\ f.shapeGroup \in DOMAIN content
    /\ f.shapeType \in DOMAIN content[f.shapeGroup]
    /\ f.shapeName \in DOMAIN content[f.shapeGroup][f.shapeType]

\* C21: showPopup for a unit with no content record under (country, level,
\* unit name), at any of the three key levels, is not an error: the popup
\* shows the unit name and the level term and no video, image or
\* description; when the terminology has no entry for the feature's country
\* or level, the level term shown is the raw level code.
C21_PopupWithoutContent ==
    /\ ~last.threw
    /\ \A p \in BagToSet(popups) :
          /\ ~HasContentRecord(p.feature) =>
                /\ p.title = p.feature.shapeName
                /\ p.subtitle \in { LevelTerm(p.feature.shapeGroup, p.feature.shapeType),
                                    p.feature.shapeType }
                /\ p.video = NULL
                /\ p.image = NULL
                /\ p.description = NULL
          /\ HasLevel(p.feature.shapeGroup, p.feature.shapeType) =>
                p.subtitle = LevelTerm(p.feature.shapeGroup, p.feature.shapeType)
          /\ ~HasLevel(p.feature.shapeGroup, p.feature.shapeType) =>
                p.subtitle = p.feature.shapeType

\* a popup for a unit of a country with neither content nor terminology
C21_Witness ==
    /\ last.op = "resolve"
    /\ \E p \in BagToSet(popups) :
          /\ p.feature.shapeGroup = "ATA"
          /\ p.subtitle = p.feature.shapeType
          /\ p.video = NULL

(* C22 *)

\* C22: handleSearch never invokes the matching engine for a query shorter
\* than 2 characters (the result list is emptied and hidden), and for
\* longer queries displays at most 10 results, the first 10 of the engine's
\* ranked results in rank order.
C22_SearchShowsTopTen ==
    [][ UserStep("handleSearch") =>
          IF Len(search'.query) < 2
          THEN /\ search'.calls = search.calls
               /\ search'.items = << >>
               /\ search'.hidden
          ELSE /\ search'.calls = search.calls + 1
               /\ Len(search'.items) <= 10
               /\ Len(search'.items) = Min(10, Len(search'.ranked))
               /\ \A i \in DOMAIN search'.items :
                     search'.items[i] = search'.ranked[i] ]_vars

\* the engine returned 12 results and the first 10 are shown
C22_Witness ==
    /\ last.op = "handleSearch"
    /\ Len(search.query) = 2
    /\ Len(search.ranked) = 12
    /\ Len(search.items) = 10
    /\ ~search.hidden

(* C23 *)

\* C23: a single click at a point covered by the fill layers of several
\* active levels opens exactly one popup, not one per layer whose click
\* callback fires.
C23_OnePopupPerClick ==
    last.op = "mapClick" => BagCardinality(popups) <= 1

(* C24 *)

\* C24: when several features under the point share the highest rank, the
\* popup is for the one the hit-test returned first among them.
C24_FirstOfTopRankWins ==
    (last.op = "resolve" /\ Len(hitTest) > 0) =>
        \E i \in DOMAIN hitTest :
            /\ \A j \in DOMAIN hitTest :
                  Rank(hitTest[j].shapeType) <= Rank(hitTest[i].shapeType)
            /\ \A j \in 1..(i - 1) :
                  Rank(hitTest[j].shapeType) < Rank(hitTest[i].shapeType)
            /\ BagToSet(popups) = { p \in BagToSet(popups) : p.feature = hitTest[i] }
            /\ BagCardinality(popups) = 1

\* a lower-rank hit first, then two distinct hits of the top rank: the
\* popup is for the second hit, not the third
C24_Witness ==
    /\ last.op = "resolve"
    /\ Len(hitTest) = 3
    /\ Rank(hitTest[1].shapeType) < Rank(hitTest[2].shapeType)
    /\ Rank(hitTest[2].shapeType) = Rank(hitTest[3].shapeType)
    /\ hitTest[2] # hitTest[3]
    /\ \E p \in BagToSet(popups) : p.feature = hitTest[2]

(* C25 *)

\* the layers of the renderer that do not belong to key k, in draw order
LayersExcept(lay, k) ==
    SelectSeq(lay, LAMBDA id : id \notin { LayerIdFill(k[1], k[2]),
                                           LayerIdLine(k[1], k[2]) })

\* C25: toggling one level on or off leaves every other level unchanged:
\* the other levels' membership in the active set, their sources, layers
\* and cache entries are the same before and after.
C25_ToggleLeavesOtherLevels ==
    [][ (UserStep("toggleOn") \/ UserStep("toggleOff")) =>
          LET k == CacheKey(last'.iso, last'.level) IN
          /\ activeLevels' \ {last'.level} = activeLevels \ {last'.level}
          /\ \A o \in Keys \ {k} :
                /\ mapSources'[o] = mapSources[o]
                /\ geoJsonCache'[o] = geoJsonCache[o]
          /\ LayersExcept(mapLayers', k) = LayersExcept(mapLayers, k) ]_vars

\* ADM1 toggled on while ADM0 of FRA is active and drawn: both are active
C25_Witness ==
    /\ last.op = "toggleOn"
    /\ last.iso = "FRA"
    /\ last.level = "ADM1"
    /\ selectedCountryISO = "FRA"
    /\ activeLevels = {"ADM0", "ADM1"}
    /\ BothDrawn(mapLayers, "FRA", "ADM0")
    /\ mapSources[CacheKey("FRA", "ADM0")] # 0

(* C26 *)

\* C26: selectSearchResult calls selectCountry if and only if the record's
\* country differs from the selected one, then moves the camera to the
\* record's point at zoom 7, then enables the record's level: the last
\* camera command targets the record's point, never the country's default
\* view, and when the country is unchanged no active level is cleared.
C26_SearchResultStepOrder ==
    [][ UserStep("selectSearchResult") =>
          LET iso == last'.iso
              level == last'.level IN
          /\ camera' = <<"point", iso, level, 7>>
          /\ selectedCountryISO' = iso
          /\ level \in activeLevels'
          /\ selectedCountryISO = iso =>
                /\ activeLevels' = activeLevels \cup {level}
                /\ btnIso' = btnIso
          /\ selectedCountryISO # iso =>
                /\ activeLevels' \cap activeLevels \subseteq
                      {level} \cup (IF HasTerminology(iso)
                                    THEN {terminology[iso].levels[1]} ELSE {})
                /\ HasTerminology(iso) => btnIso' = iso ]_vars

\* a search result of FRA chosen while XKX was selected: selectCountry ran
\* (the buttons are FRA's) and the camera is at the record's point
C26_Witness ==
    /\ last.op = "selectSearchResult"
    /\ last.iso = "FRA"
    /\ fetchCount[CacheKey("XKX", "ADM2")] > 0
    /\ btnIso = "FRA"
    /\ camera = <<"point", "FRA", "ADM1", 7>>
    /\ activeLevels = {"ADM0", "ADM1"}

(* C27 *)

\* C27: handleFeatureClick shows no popup and changes no state when the
\* hit-test over the active fill layers returns no feature, including a
\* click on a drawn layer whose level is not in the active set.
C27_NoHitNoPopup ==
    [][ (UserStep("mapClick") /\
         \A f \in Range(hitTest') : f.shapeType \notin activeLevels) =>
          /\ popups' = EmptyBag
          /\ ~last'.threw
          /\ UNCHANGED << selectedCountryISO, activeLevels, geoJsonCache,
                          mapSources, mapLayers, listeners, pending,
                          fetchCount, btnIso, btnActive, camera, search >> ]_vars

\* a click on a drawn fill layer whose callback is registered and whose
\* level is not active: no popup
C27_Witness ==
    /\ last.op = "mapClick"
    /\ Len(hitTest) > 0
    /\ \A f \in Range(hitTest) :
          /\ f.shapeType \notin activeLevels
          /\ listeners[CacheKey(f.shapeGroup, f.shapeType)] > 0
    /\ popups = EmptyBag

(* C28 *)

\* C28: every fill-layer id that handleFeatureClick passes to the hit-test
\* query names a layer that exists in the renderer at that moment.
C28_QueriedLayersExist ==
    last.op = "mapClick" =>
        \A f \in Range(hitTest) :
            listeners[CacheKey(f.shapeGroup, f.shapeType)] > 0 =>
                \A lvl \in activeLevels :
                    HasLayer(mapLayers, LayerIdFill(f.shapeGroup, lvl))

(* C29 *)

\* C29: every popup shown in response to a click is for a feature of the
\* currently selected country.
C29_PopupOfSelectedCountry ==
    last.op = "mapClick" =>
        \A p \in BagToSet(popups) : p.feature.shapeGroup = selectedCountryISO

(* C30 *)

\* C30: between event handlers, per (country, level) key the data source
\* exists iff the fill layer exists iff the outline layer exists, and at
\* most one of each exists.
C30_RegistryConsistent ==
    \A k \in Keys :
        /\ (mapSources[k] # 0) <=> HasLayer(mapLayers, LayerIdFill(k[1], k[2]))
        /\ (mapSources[k] # 0) <=> HasLayer(mapLayers, LayerIdLine(k[1], k[2]))
        /\ CountLayer(mapLayers, LayerIdFill(k[1], k[2])) <= 1
        /\ CountLayer(mapLayers, LayerIdLine(k[1], k[2])) <= 1

\* FRA's ADM0 is drawn; FRA's ADM1 was drawn and has been removed
C30_Witness ==
    /\ mapSources[CacheKey("FRA", "ADM0")] # 0
    /\ BothDrawn(mapLayers, "FRA", "ADM0")
    /\ cycle[CacheKey("FRA", "ADM1")] = 2
    /\ geoJsonCache[CacheKey("FRA", "ADM1")] # 0
    /\ NothingDrawn(mapSources, mapLayers, "FRA", "ADM1")

(* C31 *)

\* C31: every key that has a data source in the renderer also has an entry
\* in the dataset cache, and the source's data is that cached dataset.
C31_SourceIsCachedDataset ==
    \A k \in Keys :
        mapSources[k] # 0 =>
            /\ geoJsonCache[k] # 0
            /\ mapSources[k] = geoJsonCache[k]

(* C32 *)

\* level k[2] of the selected country k[1] is enabled and its dataset has
\* arrived (a fetch of it succeeded)
EnabledAndFetched(k) ==
    /\ selectedCountryISO = k[1]
    /\ k[2] \in activeLevels
    /\ geoJsonCache[k] # 0

\* C32: under fairness of fetch completion, every enable request for a
\* level of the selected country whose fetch succeeds, and which is not
\* followed by a disable of that level or by a country switch, eventually
\* results in the level's fill and outline layers being in the renderer:
\* again and again no fetch is pending and every level that is still
\* enabled for the selected country and whose dataset arrived is drawn.
C32_EnableEventuallyDraws ==
    []<>( /\ pending = {}
          /\ \A k \in Keys :
                EnabledAndFetched(k) => BothDrawn(mapLayers, k[1], k[2]) )

\* ADM1 of FRA was requested by its button while FRA was selected, its
\* fetch succeeded and its layers are drawn
C32_Witness ==
    /\ last.op = "fetchOk"
    /\ last.iso = "FRA"
    /\ last.level = "ADM1"
    /\ selectedCountryISO = "FRA"
    /\ "ADM1" \in activeLevels
    /\ btnActive = {"ADM0", "ADM1"}
    /\ BothDrawn(mapLayers, "FRA", "ADM1")
    /\ pending = {}

====
